---- MODULE Spec2Model ----
(***************************************************************************)
(* Model of groops' digital filter core                                    *)
(* (source/classes/digitalFilter/digitalFilter.cpp):                       *)
(*   DigitalFilterBase::pad / trim      boundary handling                  *)
(*   DigitalFilterARMA::warmup / filter / frequencyResponse                *)
(*   DigitalFilter::filter / frequencyResponse   (the filter chain)        *)
(*                                                                         *)
(* A Matrix is a sequence of rows, a row a sequence of column values.      *)
(* The source indexes from 0: Row(m, k) is the source's m.row(k).          *)
(* Sample values and coefficients are integers, so that all arithmetic is  *)
(* exact.                                                                  *)
(***************************************************************************)
EXTENDS Integers, Sequences, FiniteSets, TLC

VARIABLES
  pc,                 \* the operation that has just completed
  junk,               \* what a read outside an array's bounds yields
  self,               \* the DigitalFilterARMA object: bn, an, bnStartIndex,
                      \* backward, inFrequencyDomain, padType
  filters,            \* DigitalFilter::filters, the chain's members in order
  input,              \* the Matrix argument of pad / filter
  length,             \* argument of pad / trim / frequencyResponse
  timeShift,          \* argument of pad / trim
  padType,            \* argument of pad / trim
  padded,             \* the Matrix pad returned
  output,             \* the Matrix trim / filter returned
  err,                \* the exception the last operation raised ("" if none)
  i,                  \* the chain's loop index
  invoked,            \* the members' calls the chain has made, in order
  F,                  \* the frequency response being computed
  aPad, bPad,         \* frequencyResponse's padded coefficient vectors
  touched             \* the indices the reflection step has accessed

vars == <<pc, junk, self, filters, input, length, timeShift, padType,
          padded, output, err, i, invoked, F, aPad, bPad, touched>>

\* the variables of each part of the program
padVars == <<input, length, timeShift, padType, padded, output>>
chainVars == <<filters, i, invoked>>
respVars == <<F, aPad, bPad, touched>>

-----------------------------------------------------------------------------
(* Bounds of the model *)

MaxPadRows == 4       \* pad/trim: rows of the input, 0..MaxPadRows
MaxPadLength == 3     \* pad/trim: length, 0..MaxPadLength
MaxTimeShift == 2     \* pad/trim: timeShift, 0..MaxTimeShift
MaxCols == 2          \* columns of a Matrix, 1..MaxCols
MaxTaps == 3          \* filter: length of bn, 1..MaxTaps
MaxExtraRows == 1     \* filter: rows of the input beyond warmup()
MaxWarmTaps == 6      \* warmup: length of bn, 1..MaxWarmTaps
MaxRespLength == 6    \* frequencyResponse: length, 1..MaxRespLength
MaxChain == 3         \* chain: number of members, 0..MaxChain
MaxBlockExtraRows == 1 \* blocks: rows of the input beyond the shortest accepted

PadTypes == {"NONE", "ZERO", "CONSTANT", "PERIODIC", "SYMMETRIC"}
JunkVals == {-1, 1}

-----------------------------------------------------------------------------
(* Integer helpers *)

Max(a, b) == IF a >= b THEN a ELSE b
Min(a, b) == IF a <= b THEN a ELSE b

-----------------------------------------------------------------------------
(* Matrix helpers *)

Rows(m) == Len(m)
Columns(m) == IF Len(m) = 0 THEN 0 ELSE Len(m[1])
Row(m, k) == m[k + 1]
ZeroRow(c) == [j \in 1..c |-> 0]
\* Matrix(rows, columns): a zero-filled matrix
ZeroMatrix(r, c) == [k \in 1..r |-> ZeroRow(c)]
\* m.row(start, count)
RowSlice(m, start, count) == SubSeq(m, start + 1, start + count)
\* a row read at index k; outside the matrix the read is undefined and
\* yields whatever the memory holds
RowOrJunk(m, k) ==
  IF k >= 0 /\ k < Rows(m) THEN Row(m, k) ELSE [j \in 1..Columns(m) |-> junk]

\* the test inputs: with r rows and c columns, the unit impulse at each row,
\* the ramp 1..r and the constant 1; column j holds j times column 1
Impulse(r, c, p) == [k \in 1..r |-> [j \in 1..c |-> IF k = p THEN j ELSE 0]]
Ramp(r, c) == [k \in 1..r |-> [j \in 1..c |-> j * k]]
Ones(r, c) == [k \in 1..r |-> [j \in 1..c |-> j]]
Inputs(r, c) == {Impulse(r, c, p) : p \in 1..r} \cup {Ramp(r, c), Ones(r, c)}

\* the inputs of a filter: the impulses in one column, the ramp in 1..MaxCols
FilterInputs(r) == {Impulse(r, 1, p) : p \in 1..r} \cup {Ramp(r, c) : c \in 1..MaxCols}

NoMatrix == <<>>
ChainIdle == filters = <<>> /\ i = 0 /\ invoked = <<>>
RespIdle == F = <<>> /\ aPad = <<>> /\ bPad = <<>> /\ touched = {}
NoFilter == [bn |-> <<1>>, an |-> <<1>>, bnStartIndex |-> 0, backward |-> FALSE,
             inFrequencyDomain |-> FALSE, padType |-> "NONE"]

-----------------------------------------------------------------------------
(* DigitalFilterBase::pad *)

\* pad with the symmetric policy's row check off by one
PadErrorLoose(in, len, type) ==
  IF type = "NONE" THEN ""
  ELSE IF Rows(in) < 1 THEN "ZeroLengthInput"
  ELSE IF type = "PERIODIC" /\ Rows(in) < len THEN "InvalidPadding"
  ELSE IF type = "SYMMETRIC" /\ Rows(in) < len THEN "InvalidPadding"
  ELSE ""

\* the exception pad raises, "" if none
PadError(in, len, type) ==
  IF type = "NONE" THEN ""
  ELSE IF Rows(in) < 1 THEN "ZeroLengthInput"
  ELSE IF type = "PERIODIC" /\ Rows(in) < len THEN "InvalidPadding"
  ELSE IF type = "SYMMETRIC" /\ Rows(in) < len + 1 THEN "InvalidPadding"
  ELSE IF type \notin PadTypes THEN "UnknownPadType"
  ELSE ""

\* the row copies of pad's boundary loops, as <<input row read, padded row
\* written>>, for an input of r rows
PadCopies(r, len, type) ==
  CASE type = "CONSTANT" ->
         UNION {{<<0, k>>, <<r - 1, r + len + k>>} : k \in 0..(len - 1)}
    [] type = "PERIODIC" ->
         UNION {{<<r - len + k, k>>, <<k, r + len + k>>} : k \in 0..(len - 1)}
    [] type = "SYMMETRIC" ->
         UNION {{<<k + 1, len - 1 - k>>, <<r - 2 - k, r + len + k>>} : k \in 0..(len - 1)}
    [] OTHER -> {}

PadReads(r, len, type) == {cp[1] : cp \in PadCopies(r, len, type)}
PadWrites(r, len, type) == {cp[2] : cp \in PadCopies(r, len, type)}

\* the Matrix pad returns when it raises nothing
Pad(in, len, shift, type) ==
  IF type = "NONE"
  THEN IF shift > 0
       THEN in \o ZeroMatrix(shift, Columns(in))
       ELSE in
  ELSE LET r == Rows(in)
           copies == PadCopies(r, len, type)
       IN [n \in 1..(2 * len + r + shift) |->
             IF \E cp \in copies : cp[2] = n - 1
             THEN RowOrJunk(in, (CHOOSE cp \in copies : cp[2] = n - 1)[1])
             ELSE IF n - 1 >= len /\ n - 1 < len + r
                  THEN Row(in, n - 1 - len)
                  ELSE ZeroRow(Columns(in))]

(* DigitalFilterBase::trim *)

\* trim dropping the leading rows only
TrimHeadOnly(in, len, shift, type) ==
  IF type = "NONE"
  THEN IF shift > 0
       THEN RowSlice(in, shift, Rows(in) - shift)
       ELSE in
  ELSE RowSlice(in, len + shift, Rows(in) - len - shift)

\* trim returning the rows as they are under the None policy
TrimNoneKeepsRows(in, len, shift, type) ==
  IF type = "NONE"
  THEN in
  ELSE RowSlice(in, len + shift, Rows(in) - 2 * len - shift)

Trim(in, len, shift, type) ==
  IF type = "NONE"
  THEN IF shift > 0
       THEN RowSlice(in, shift, Rows(in) - shift)
       ELSE in
  ELSE RowSlice(in, len + shift, Rows(in) - 2 * len - shift)


-----------------------------------------------------------------------------
(* Row arithmetic and the linear-algebra calls of the time-domain path *)

\* a sequence built by a function constructor, fully evaluated
Materialise(q) == SubSeq(q, 1, Len(q))

RowAdd(a, b) == Materialise([j \in 1..Len(a) |-> a[j] + b[j]])
RowScale(c, a) == Materialise([j \in 1..Len(a) |-> c * a[j]])

\* coefficient j of a vector, 0 outside it
Entry(coef, j) == IF j >= 0 /\ j < Len(coef) THEN coef[j + 1] ELSE 0

\* the banded matrix transposed
ToeplitzTransposed(coef, row, col) == Entry(coef, col - row)

\* element (row, col) of the banded matrix the source builds with
\* copy(coef, M.slice(k, k, coef.rows(), 1)) for every column k
Toeplitz(coef, row, col) == Entry(coef, row - col)

\* sum over col = lo..hi of Toeplitz(coef, row, col) * X.row(col), rows of c
\* columns; the range is summed in halves
RECURSIVE DotRow(_, _, _, _, _, _)
DotRow(coef, row, X, lo, hi, c) ==
  IF lo > hi THEN ZeroRow(c)
  ELSE IF lo = hi THEN RowScale(Toeplitz(coef, row, lo), Row(X, lo))
  ELSE LET mid == (lo + hi) \div 2
       IN RowAdd(DotRow(coef, row, X, lo, mid, c), DotRow(coef, row, X, mid + 1, hi, c))

\* matMult(c, M.row(rowOff, nRows), X, Y): Y + c * M.row(rowOff, nRows) * X,
\* M the banded matrix of coef with Rows(X) columns
MatMult(c, coef, rowOff, nRows, X, Y) ==
  Materialise([r \in 1..nRows |->
     RowAdd(Y[r], RowScale(c, DotRow(coef, rowOff + r - 1, X, 0, Rows(X) - 1, Len(Y[r]))))])

\* triangularSolve(1.0, A1.slice(0, 0, n, n), Y): the rows y of A1 * y = Y for
\* the lower triangle A1 of the banded matrix of coef; acc holds the rows
\* solved so far. The model's an(0) is 1, so the division is exact.
RECURSIVE TriangularSolve(_, _, _)
TriangularSolve(coef, Y, acc) ==
  IF Len(acc) >= Rows(Y) THEN acc
  ELSE LET r == Len(acc)
           rhs == RowAdd(Row(Y, r),
                         RowScale(-1, DotRow(coef, r, acc, 0, r - 1, Len(Row(Y, r)))))
       IN TriangularSolve(coef, Y,
            Append(acc, Materialise([j \in 1..Len(rhs) |-> rhs[j] \div coef[1]])))

\* m with the rows from start on replaced by those of part
Splice(m, start, part) ==
  SubSeq(m, 1, start) \o part \o SubSeq(m, start + Len(part) + 1, Len(m))

\* the loop swapping row k with row rows-1-k for k < rows/2
RECURSIVE SwapRows(_, _)
SwapRows(m, k) ==
  IF k >= Rows(m) \div 2 THEN m
  ELSE SwapRows(Materialise([n \in 1..Rows(m) |->
                   IF n - 1 = k THEN Row(m, Rows(m) - k - 1)
                   ELSE IF n - 1 = Rows(m) - k - 1 THEN Row(m, k)
                   ELSE m[n]]), k + 1)

-----------------------------------------------------------------------------
(* DigitalFilterARMA *)

MaxBlockSize == 64

\* warmup without the feedback term
WarmupNoFeedback(f) ==
  Max(Len(f.bn) - f.bnStartIndex - 1, f.bnStartIndex)

\* warmup with the feedback term taken as 3 times the feedback order
WarmupByOrder(f) ==
  Max(Max(Len(f.bn) - f.bnStartIndex - 1, f.bnStartIndex), 3 * (Len(f.an) - 1))

Warmup(f) ==
  Max(Max(Len(f.bn) - f.bnStartIndex - 1, f.bnStartIndex), 3 * Len(f.an))

\* the feed-forward loop over the blocks, from block idxStart on
RECURSIVE FeedForward(_, _, _, _, _)
FeedForward(f, p, blockSize, idxStart, out) ==
  IF idxStart >= Rows(out) THEN out
  ELSE LET columnCount == Min(Rows(out) - idxStart, blockSize)
           rowCount == Min(Rows(out) - idxStart, Len(f.bn) + blockSize - 1)
           block == MatMult(1, f.bn, 0, rowCount,
                            RowSlice(p, idxStart, columnCount),
                            RowSlice(out, idxStart, rowCount))
       IN FeedForward(f, p, blockSize, idxStart + blockSize,
                      Splice(out, idxStart, block))

\* the feedback loop over the blocks, from block idxStart on
RECURSIVE FeedBack(_, _, _, _)
FeedBack(f, blockSize, idxStart, out) ==
  IF idxStart >= Rows(out) THEN out
  ELSE LET columnCount == Min(Rows(out) - idxStart, blockSize)
           coupled == Min(Len(f.an) - 1, columnCount)
           out1 == IF idxStart > 0
                   THEN Splice(out, idxStart,
                          MatMult(-1, f.an, blockSize, coupled,
                                  RowSlice(out, idxStart - blockSize, blockSize),
                                  RowSlice(out, idxStart, coupled)))
                   ELSE out
           solved == TriangularSolve(f.an, RowSlice(out1, idxStart, columnCount), <<>>)
       IN FeedBack(f, blockSize, idxStart + blockSize, Splice(out1, idxStart, solved))

\* the block-wise evaluation over the padded rows p
BlockRows(f, p) ==
  LET blockSize == Min(MaxBlockSize, Rows(p))
      out1 == FeedForward(f, p, blockSize, 0, ZeroMatrix(Rows(p), Columns(p)))
  IN IF Len(f.an) > 1 THEN FeedBack(f, blockSize, 0, out1) ELSE out1

\* the time-domain path between pad and trim: the rows of `output`
TimeDomainRows(f, p) ==
  IF f.backward THEN SwapRows(BlockRows(f, SwapRows(p, 0)), 0) ELSE BlockRows(f, p)

TimeDomain(f, in) ==
  Trim(TimeDomainRows(f, Pad(in, Warmup(f), f.bnStartIndex, f.padType)),
       Warmup(f), f.bnStartIndex, f.padType)

(* DigitalFilterARMA::frequencyResponse: the padded coefficient vectors *)

\* bPad: bn from bnStartIndex on at the start, bn before it wrapped to the end
BPad(f, len) ==
  [n \in 1..len |->
     IF n - 1 >= len - f.bnStartIndex THEN f.bn[n - (len - f.bnStartIndex)]
     ELSE IF n - 1 < Len(f.bn) - f.bnStartIndex THEN f.bn[f.bnStartIndex + n]
     ELSE 0]

\* aPad: an at the start
APad(f, len) == [n \in 1..len |-> IF n - 1 < Len(f.an) THEN f.an[n] ELSE 0]

\* v with the elements at indices a and b (from 0) swapped
Swap(v, a, b) ==
  [n \in 1..Len(v) |-> IF n - 1 = a THEN v[b + 1] ELSE IF n - 1 = b THEN v[a + 1] ELSE v[n]]

\* the reflection loop from step k on, over a vector followed by the memory
\* cell behind its last element
RECURSIVE ReflectLoop(_, _, _, _)
ReflectLoop(ext, len, count, k) ==
  IF k >= count THEN ext
  ELSE ReflectLoop(Swap(ext, k + 1, len - 1 - k), len, count, k + 1)

\* "reflect around element one": swap v(k+1) and v(rows-1-k) for k < count;
\* the element behind the vector's end holds junk
Reflect(v, count) ==
  [v |-> SubSeq(ReflectLoop(v \o <<junk>>, Len(v), count, 0), 1, Len(v)),
   touched |-> UNION {{k + 1, Len(v) - 1 - k} : k \in 0..(count - 1)}]

\* aPad and bPad as they are handed to the Fourier transform
ResponseVectors(f, len) ==
  LET count == Max(Len(f.bn), Len(f.an))
  IN IF f.backward
     THEN [a |-> Reflect(APad(f, len), count).v,
           b |-> Reflect(BPad(f, len), count).v,
           touched |-> Reflect(BPad(f, len), count).touched]
     ELSE [a |-> APad(f, len), b |-> BPad(f, len), touched |-> {}]

\* the exception frequencyResponse raises, "" if none
ResponseError(f, len) ==
  IF Len(f.bn) > len \/ Len(f.an) > len THEN "ResponseLengthTooShort" ELSE ""

(* DigitalFilterARMA::filter: the frequency-domain path *)

\* synthesis(fft(x) * fft(b) / fft(a)) column by column, for a feed-forward
\* filter: a is then g times the unit impulse, its transform the constant g,
\* and the product of the transforms is the circular convolution of b and x
RECURSIVE CircularRow(_, _, _, _, _)
CircularRow(b, X, n, lo, hi) ==
  IF lo > hi THEN ZeroRow(Columns(X))
  ELSE IF lo = hi THEN RowScale(b[lo + 1], Row(X, (n - lo) % Rows(X)))
  ELSE LET mid == (lo + hi) \div 2
       IN RowAdd(CircularRow(b, X, n, lo, mid), CircularRow(b, X, n, mid + 1, hi))

CircularFilter(b, a, X) ==
  Materialise([n \in 1..Rows(X) |->
     LET conv == CircularRow(b, X, n - 1, 0, Rows(X) - 1)
     IN Materialise([j \in 1..Columns(X) |-> conv[j] \div a[1]])])

FrequencyDomain(f, in) ==
  LET p == Pad(in, Warmup(f), f.bnStartIndex, f.padType)
      c == ResponseVectors(f, Rows(p))
  IN Trim(CircularFilter(c.b, c.a, p), Warmup(f), f.bnStartIndex, f.padType)

\* the exception filter raises, "" if none
FilterError(f, in) ==
  IF Rows(in) < Warmup(f) THEN "InsufficientInputLength"
  ELSE IF PadError(in, Warmup(f), f.padType) # "" THEN PadError(in, Warmup(f), f.padType)
  ELSE IF f.inFrequencyDomain
       THEN ResponseError(f, Rows(Pad(in, Warmup(f), f.bnStartIndex, f.padType)))
       ELSE ""

\* the Matrix filter returns when it raises nothing
Filter(f, in) ==
  IF f.inFrequencyDomain THEN FrequencyDomain(f, in) ELSE TimeDomain(f, in)

-----------------------------------------------------------------------------
(* Specification SpecPad: pad, then trim with the same arguments *)

InitPad ==
  /\ pc = "start"
  /\ junk \in JunkVals
  /\ self = NoFilter
  /\ \E r \in 0..MaxPadRows, c \in 1..MaxCols :
       input \in (IF r = 0 THEN {NoMatrix} ELSE Inputs(r, c))
  /\ length \in 0..MaxPadLength
  /\ timeShift \in 0..MaxTimeShift
  /\ padType \in PadTypes
  /\ padded = NoMatrix
  /\ output = NoMatrix
  /\ err = ""
  /\ ChainIdle
  /\ RespIdle

DoPad ==
  /\ pc = "start"
  /\ LET e == PadError(input, length, padType)
     IN /\ err' = e
        /\ IF e = ""
           THEN /\ padded' = Pad(input, length, timeShift, padType)
                /\ pc' = "padded"
           ELSE /\ padded' = padded
                /\ pc' = "raised"
  /\ UNCHANGED <<junk, self, input, length, timeShift, padType, output>>
  /\ UNCHANGED <<chainVars, respVars>>

DoTrim ==
  /\ pc = "padded"
  /\ output' = Trim(padded, length, timeShift, padType)
  /\ pc' = "trimmed"
  /\ UNCHANGED <<junk, self, input, length, timeShift, padType, padded, err>>
  /\ UNCHANGED <<chainVars, respVars>>

NextPad == DoPad \/ DoTrim

SpecPad == InitPad /\ [][NextPad]_vars

\* C1 as stated: for every padType other than None, every length and every
\* timeShift >= 0, trim(pad(x)) equals x exactly.
C1_TrimPadAnyShift ==
  (pc = "trimmed" /\ padType # "NONE") => output = input

\* C1 as amended: for every padType other than None and every length,
\* trim(pad(x)) has the row and column count of x, and with timeShift = 0 it
\* equals x exactly; with timeShift > 0 its rows are the padded rows from
\* length + timeShift on, that is x moved up by timeShift rows.
C1_TrimInvertsPad ==
  (pc = "trimmed" /\ padType # "NONE") =>
     /\ Rows(output) = Rows(input)
     /\ Columns(output) = Columns(input)
     /\ (timeShift = 0 => output = input)
     /\ \A n \in 0..(Rows(output) - 1) :
          Row(output, n) = Row(padded, length + timeShift + n)

C1_Witness ==
  /\ pc = "trimmed"
  /\ padType = "SYMMETRIC"
  /\ timeShift = 0
  /\ length = 2
  /\ Rows(input) = 3
  /\ Columns(input) = 2
  /\ Rows(padded) = 7
  /\ output = input

\* C8: pad with a padType other than None raises ZeroLengthInput on an input
\* of 0 rows; on an input of at least one row Periodic raises InvalidPadding
\* exactly when rows < length and Symmetric exactly when rows < length + 1,
\* and Zero and Constant raise nothing; whenever pad raises nothing, every
\* input row its boundary loops read and every padded row they write exists.
C8_PadErrorsAndRange ==
  (pc \in {"padded", "raised"} /\ padType # "NONE") =>
     /\ (Rows(input) = 0 => err = "ZeroLengthInput")
     /\ (Rows(input) >= 1 /\ padType = "PERIODIC" =>
           (err = "InvalidPadding" <=> Rows(input) < length))
     /\ (Rows(input) >= 1 /\ padType = "SYMMETRIC" =>
           (err = "InvalidPadding" <=> Rows(input) < length + 1))
     /\ (Rows(input) >= 1 => err \in {"", "InvalidPadding"})
     /\ (Rows(input) >= 1 /\ padType \in {"ZERO", "CONSTANT"} => err = "")
     /\ (err = "" =>
           /\ PadReads(Rows(input), length, padType) \subseteq 0..(Rows(input) - 1)
           /\ PadWrites(Rows(input), length, padType) \subseteq 0..(Rows(padded) - 1))

C8_Witness ==
  /\ pc = "padded"
  /\ padType = "SYMMETRIC"
  /\ length = 3
  /\ Rows(input) = 4
  /\ err = ""
  /\ PadReads(Rows(input), length, padType) = 0..3

-----------------------------------------------------------------------------
(* Specification Spec: one DigitalFilterARMA object filters one input *)

\* the tap vectors of length L: each unit tap, the ramp 1..L and the constant 1
Taps(L) == {[m \in 1..L |-> IF m = q THEN 1 ELSE 0] : q \in 1..L}
             \cup {[m \in 1..L |-> m], [m \in 1..L |-> 1]}
BnSet == UNION {Taps(L) : L \in 1..MaxTaps}
\* an(0) is 1
AnSet == {<<1>>, <<1, -2>>}

\* the filter objects; the frequency-domain path is modelled for feed-forward
\* filters
ArmaFilters ==
  {f \in [bn : BnSet, an : AnSet, bnStartIndex : 0..(MaxTaps - 1),
          backward : BOOLEAN, inFrequencyDomain : BOOLEAN, padType : PadTypes] :
     /\ f.bnStartIndex < Len(f.bn)
     /\ f.inFrequencyDomain => f.an = <<1>>}

FilterIdle ==
  /\ length = 0 /\ timeShift = 0 /\ padType = "NONE" /\ padded = NoMatrix

Init ==
  /\ pc = "start"
  /\ junk \in JunkVals
  /\ self \in ArmaFilters
  /\ \E r \in (Warmup(self) - 1)..(Warmup(self) + MaxExtraRows) :
       input \in FilterInputs(r)
  /\ FilterIdle
  /\ output = NoMatrix
  /\ err = ""
  /\ ChainIdle
  /\ RespIdle

DoFilter ==
  /\ pc = "start"
  /\ LET e == FilterError(self, input)
     IN /\ err' = e
        /\ IF e = ""
           THEN /\ output' = Filter(self, input)
                /\ pc' = "filtered"
           ELSE /\ output' = output
                /\ pc' = "raised"
  /\ UNCHANGED <<junk, self, input, length, timeShift, padType, padded>>
  /\ UNCHANGED <<chainVars, respVars>>

Next == DoFilter

Spec == Init /\ [][Next]_vars

\* sample j of the input x as the padding policy extends it beyond its rows
\* 0..rows-1 (no padding: nothing but zeros outside)
Extended(x, j, type) ==
  IF j >= 0 /\ j < Rows(x) THEN Row(x, j)
  ELSE CASE type = "CONSTANT" -> IF j < 0 THEN Row(x, 0) ELSE Row(x, Rows(x) - 1)
         [] type = "PERIODIC" -> Row(x, j % Rows(x))
         [] type = "SYMMETRIC" -> IF j < 0 THEN Row(x, -j) ELSE Row(x, 2 * (Rows(x) - 1) - j)
         [] OTHER -> ZeroRow(Columns(x))

\* sum over i = 0..k of bn(i) * xe(n + dir * (i - bnStartIndex))
RECURSIVE TapSum(_, _, _, _, _)
TapSum(f, x, n, dir, k) ==
  IF k < 0 THEN ZeroRow(Columns(x))
  ELSE RowAdd(TapSum(f, x, n, dir, k - 1),
              RowScale(f.bn[k + 1], Extended(x, n + dir * (k - f.bnStartIndex), f.padType)))

FeedForwardOnly ==
  pc = "filtered" /\ self.an = <<1>> /\ ~self.inFrequencyDomain /\ ~self.backward

\* C2 as stated: for a feed-forward filter on the time-domain path with
\* backward = false, output row n is the sum over i of
\* bn(i) * xe(n + i - bnStartIndex).
C2_RowIsCorrelation ==
  FeedForwardOnly =>
     \A n \in 0..(Rows(output) - 1) :
        Row(output, n) = TapSum(self, input, n, 1, Len(self.bn) - 1)

\* C2 as amended: for a feed-forward filter on the time-domain path with
\* backward = false, output row n is the sum over i of
\* bn(i) * xe(n + bnStartIndex - i), xe the input extended by the padding
\* policy (by zeros when the policy is None), and the output has the input's
\* row count.
C2_RowIsConvolution ==
  FeedForwardOnly =>
     /\ Rows(output) = Rows(input)
     /\ \A n \in 0..(Rows(output) - 1) :
          Row(output, n) = TapSum(self, input, n, -1, Len(self.bn) - 1)

C2_Witness ==
  /\ FeedForwardOnly
  /\ self.bn = <<1, 2, 3>>
  /\ self.bnStartIndex = 1
  /\ self.padType = "CONSTANT"
  /\ input = Ramp(4, 1)
  /\ output = <<<<7>>, <<10>>, <<16>>, <<21>>>>

IdentityFilter ==
  self.bn = <<1>> /\ self.an = <<1>> /\ self.bnStartIndex = 0

\* C4 as stated: the identity filter returns every input of at least one row
\* unchanged, under every padType, and raises nothing.
C4_IdentityAnyInput ==
  (IdentityFilter /\ pc # "start") => (err = "" /\ output = input)

\* C4 as amended: the identity filter has warmup() = 3; it returns the input
\* unchanged when the input has at least 3 rows (at least 4 under Symmetric
\* padding), and raises an error on every shorter input.
C4_IdentityLongInput ==
  (IdentityFilter /\ pc # "start") =>
     IF Rows(input) >= 3 /\ (self.padType = "SYMMETRIC" => Rows(input) >= 4)
     THEN pc = "filtered" /\ err = "" /\ output = input
     ELSE /\ pc = "raised"
          /\ err = (IF Rows(input) < 3 THEN "InsufficientInputLength" ELSE "InvalidPadding")

C4_Witness ==
  /\ IdentityFilter
  /\ pc = "filtered"
  /\ self.padType = "SYMMETRIC"
  /\ self.backward
  /\ Rows(input) = 4
  /\ Columns(input) = 2
  /\ output = input

\* C5: for a feed-forward filter, every bn and every bnStartIndex, the
\* frequency-domain path returns what the time-domain path returns for the
\* same input and padType; stated here for the padding policies other than
\* None, whose padding keeps the circular wrap-around out of the result.
C5_PathsAgree ==
  (/\ pc = "filtered"
   /\ self.an = <<1>>
   /\ self.inFrequencyDomain
   /\ ~self.backward
   /\ self.padType # "NONE") =>
     output = TimeDomain(self, input)

-----------------------------------------------------------------------------
(* Specification SpecWarmup: filter's entry, up to its call of pad *)

InitWarmup ==
  /\ pc = "new"
  /\ junk \in JunkVals
  /\ self \in {f \in [bn : {[m \in 1..L |-> 1] : L \in 1..MaxWarmTaps}, an : AnSet,
                      bnStartIndex : 0..(MaxWarmTaps - 1), backward : {FALSE},
                      inFrequencyDomain : {FALSE}, padType : PadTypes] :
                 f.bnStartIndex < Len(f.bn)}
  /\ input \in {Ramp(r, 1) : r \in {Warmup(self) - 1, Warmup(self), 10}}
  /\ FilterIdle
  /\ output = NoMatrix
  /\ err = ""
  /\ ChainIdle
  /\ RespIdle

\* filter's check of the input against warmup(), and the arguments of its
\* call pad(input, warmup(), bnStartIndex, padType)
FilterEnter ==
  /\ pc = "new"
  /\ IF Rows(input) < Warmup(self)
     THEN /\ err' = "InsufficientInputLength"
          /\ pc' = "raised"
          /\ UNCHANGED <<length, timeShift, padType>>
     ELSE /\ err' = ""
          /\ pc' = "start"
          /\ length' = Warmup(self)
          /\ timeShift' = self.bnStartIndex
          /\ padType' = self.padType
  /\ UNCHANGED <<junk, self, input, padded, output>>
  /\ UNCHANGED <<chainVars, respVars>>

NextWarmup == FilterEnter \/ DoPad

SpecWarmup == InitWarmup /\ [][NextWarmup]_vars

\* C3 as stated: for a feed-forward filter (an of length 1) the length filter
\* pads with is max(length(bn) - bnStartIndex - 1, bnStartIndex); with bn of
\* length 3 and bnStartIndex = 1 a 10-row input is padded to 12 rows under
\* Constant padding.
C3_FeedbackTermZero ==
  (pc \in {"start", "padded"} /\ Len(self.an) = 1) =>
     /\ length = Max(Len(self.bn) - self.bnStartIndex - 1, self.bnStartIndex)
     /\ (/\ pc = "padded" /\ Len(self.bn) = 3 /\ self.bnStartIndex = 1
         /\ padType = "CONSTANT" /\ Rows(input) = 10) => Rows(padded) = 12

\* C3 as amended: the feedback term of warmup() is 3 * length(an), which is 3
\* for a feed-forward filter: warmup() = max(length(bn) - bnStartIndex - 1,
\* bnStartIndex, 3). bn of length 5 with bnStartIndex = 2 gives 3, and bn of
\* length 3 with bnStartIndex = 1 gives 3, so that a 10-row input is padded to
\* 2*3 + 10 + 1 = 17 rows under Constant padding.
C3_FeedbackTermThree ==
  (pc \in {"start", "padded"}) =>
     /\ Len(self.an) = 1 =>
          length = Max(Max(Len(self.bn) - self.bnStartIndex - 1, self.bnStartIndex), 3)
     /\ Len(self.an) = 2 =>
          length = Max(Max(Len(self.bn) - self.bnStartIndex - 1, self.bnStartIndex), 6)
     /\ (Len(self.an) = 1 /\ Len(self.bn) = 5 /\ self.bnStartIndex = 2) => length = 3
     /\ (/\ pc = "padded" /\ Len(self.an) = 1 /\ Len(self.bn) = 3
         /\ self.bnStartIndex = 1 /\ padType = "CONSTANT" /\ Rows(input) = 10) =>
          /\ length = 3
          /\ Rows(padded) = 17
          /\ \A n \in 0..16 :
               Row(padded, n) = <<IF n < 3 THEN 1 ELSE IF n < 13 THEN n - 2
                                  ELSE IF n < 16 THEN 10 ELSE 0>>

C3_Witness ==
  /\ pc = "padded"
  /\ Len(self.an) = 1
  /\ Len(self.bn) = 3
  /\ self.bnStartIndex = 1
  /\ padType = "CONSTANT"
  /\ Rows(input) = 10
  /\ Rows(padded) = 17

-----------------------------------------------------------------------------
(* Complex numbers: [re, im, den] is (re + i*im)/den in lowest terms, den > 0 *)

Abs(a) == IF a < 0 THEN -a ELSE a

RECURSIVE GCD(_, _)
GCD(a, b) == IF b = 0 THEN a ELSE GCD(b, a % b)

Complex(re, im, den) ==
  LET g == GCD(GCD(Abs(re), Abs(im)), Abs(den))
      sg == IF den < 0 THEN -g ELSE g
  IN [re |-> re \div sg, im |-> im \div sg, den |-> den \div sg]

COne == [re |-> 1, im |-> 0, den |-> 1]
CIsZero(x) == x.re = 0 /\ x.im = 0
CAdd(x, y) == Complex(x.re * y.den + y.re * x.den, x.im * y.den + y.im * x.den, x.den * y.den)
CMul(x, y) == Complex(x.re * y.re - x.im * y.im, x.re * y.im + x.im * y.re, x.den * y.den)
CDiv(b, a) ==
  Complex((b.re * a.re + b.im * a.im) * a.den, (b.im * a.re - b.re * a.im) * a.den,
          b.den * (a.re * a.re + a.im * a.im))

\* the lengths whose transform has Gaussian integer bins: the 4th roots of unity
RespLengths == {1, 2, 4}
Root4 == <<[re |-> 1, im |-> 0, den |-> 1], [re |-> 0, im |-> -1, den |-> 1],
           [re |-> -1, im |-> 0, den |-> 1], [re |-> 0, im |-> 1, den |-> 1]>>

\* sum over n = 0..m of v(n) * w^(k*n), w = exp(-2 pi i / Len(v))
RECURSIVE FftBin(_, _, _)
FftBin(v, k, m) ==
  IF m < 0 THEN [re |-> 0, im |-> 0, den |-> 1]
  ELSE CAdd(FftBin(v, k, m - 1),
            CMul([re |-> v[m + 1], im |-> 0, den |-> 1],
                 Root4[((k * m * (4 \div Len(v))) % 4) + 1]))

\* Fourier::fft of a real vector: the bins 0..floor(n/2)
Fft(v) == [k \in 1..((Len(v) \div 2) + 1) |-> FftBin(v, k - 1, Len(v) - 1)]

\* the vector frequencyResponse returns when it raises nothing
FrequencyResponse(f, len) ==
  LET c == ResponseVectors(f, len)
      A == Fft(c.a)
      B == Fft(c.b)
  IN [k \in 1..Len(A) |-> IF ~CIsZero(A[k]) THEN CDiv(B[k], A[k]) ELSE COne]

-----------------------------------------------------------------------------
(* Specification SpecResp: DigitalFilterARMA::frequencyResponse, step by step *)

InitResp ==
  /\ pc = "start"
  /\ junk \in JunkVals
  /\ self \in {f \in ArmaFilters : ~f.inFrequencyDomain /\ f.padType = "NONE"}
  /\ length \in 1..MaxRespLength
  /\ input = NoMatrix /\ timeShift = 0 /\ padType = "NONE" /\ padded = NoMatrix
  /\ output = NoMatrix
  /\ err = ""
  /\ ChainIdle
  /\ RespIdle

\* the length check and the padded coefficient vectors
RespCoefficients ==
  /\ pc = "start"
  /\ IF ResponseError(self, length) # ""
     THEN /\ err' = ResponseError(self, length)
          /\ pc' = "raised"
          /\ UNCHANGED <<aPad, bPad>>
     ELSE /\ err' = ""
          /\ pc' = "coefficients"
          /\ aPad' = APad(self, length)
          /\ bPad' = BPad(self, length)
  /\ UNCHANGED <<junk, self, padVars, chainVars, F, touched>>

\* if(backward): the reflection loop
RespReflect ==
  /\ pc = "coefficients"
  /\ self.backward
  /\ pc' = "reflected"
  /\ aPad' = Reflect(aPad, Max(Len(self.bn), Len(self.an))).v
  /\ bPad' = Reflect(bPad, Max(Len(self.bn), Len(self.an))).v
  /\ touched' = Reflect(bPad, Max(Len(self.bn), Len(self.an))).touched
  /\ UNCHANGED <<junk, self, padVars, chainVars, F, err>>

\* the transforms and their ratio
RespTransform ==
  /\ \/ pc = "coefficients" /\ ~self.backward
     \/ pc = "reflected"
  /\ length \in RespLengths
  /\ pc' = "responded"
  /\ F' = [k \in 1..Len(Fft(aPad)) |->
             IF ~CIsZero(Fft(aPad)[k]) THEN CDiv(Fft(bPad)[k], Fft(aPad)[k]) ELSE COne]
  /\ UNCHANGED <<junk, self, padVars, chainVars, aPad, bPad, touched, err>>

NextResp == RespCoefficients \/ RespReflect \/ RespTransform

SpecResp == InitResp /\ [][NextResp]_vars

\* v reversed circularly: element 0 stays, element k goes to length-k
CircularReverse(v) == [n \in 1..Len(v) |-> IF n = 1 THEN v[1] ELSE v[Len(v) + 2 - n]]

\* C10: for every length frequencyResponse accepts, the reflection step
\* accesses indices 0..length-1 only and leaves aPad and bPad equal to the
\* circular time reversal of what they were before the step.
C10_ReflectionIsReversal ==
  [][(pc = "coefficients" /\ pc' = "reflected") =>
       /\ touched' \subseteq 0..(length - 1)
       /\ aPad' = CircularReverse(aPad)
       /\ bPad' = CircularReverse(bPad)]_vars

-----------------------------------------------------------------------------
(* Specification SpecChain: DigitalFilter::filter and                       *)
(* DigitalFilter::frequencyResponse over the members, step by step         *)

\* the member filters the chains are made of
ChainMembers ==
  {[bn |-> <<1, 2>>, an |-> <<1>>, bnStartIndex |-> 0, backward |-> FALSE,
    inFrequencyDomain |-> FALSE, padType |-> "ZERO"],
   [bn |-> <<1, 2>>, an |-> <<1>>, bnStartIndex |-> 1, backward |-> TRUE,
    inFrequencyDomain |-> FALSE, padType |-> "SYMMETRIC"],
   [bn |-> <<1>>, an |-> <<1, -2>>, bnStartIndex |-> 0, backward |-> FALSE,
    inFrequencyDomain |-> FALSE, padType |-> "NONE"],
   [bn |-> <<0, 1, 1>>, an |-> <<1>>, bnStartIndex |-> 1, backward |-> FALSE,
    inFrequencyDomain |-> TRUE, padType |-> "CONSTANT"]}

ChainInputs == {Ramp(3, 1), Ramp(4, 1), Impulse(6, 1, 2), Ramp(7, 2)}

Chains == UNION {[1..n -> ChainMembers] : n \in 0..MaxChain}

InitChain ==
  /\ junk \in JunkVals
  /\ self = NoFilter
  /\ filters \in Chains
  /\ i = 0
  /\ invoked = <<>>
  /\ \/ pc = "callFilter" /\ input \in ChainInputs /\ length = 0
     \/ pc = "callResponse" /\ input = NoMatrix /\ length \in RespLengths
  /\ timeShift = 0 /\ padType = "NONE" /\ padded = NoMatrix
  /\ output = NoMatrix
  /\ err = ""
  /\ RespIdle

\* the argument of member i's filter
MemberInputFirst(in, out) == in

MemberInput(in, out) == out

\* Matrix output = input
ChainFilterBegin ==
  /\ pc = "callFilter"
  /\ output' = input
  /\ i' = 0
  /\ pc' = "filterLoop"
  /\ UNCHANGED <<junk, self, filters, invoked, input, length, timeShift, padType,
                 padded, err, respVars>>

\* output = filters.at(i)->filter(output)
ChainFilterStep ==
  /\ pc = "filterLoop"
  /\ i < Len(filters)
  /\ LET member == filters[i + 1]
         arg == MemberInput(input, output)
         e == FilterError(member, arg)
     IN IF e # ""
        THEN /\ invoked' = Append(invoked, [member |-> i, arg |-> arg, raised |-> e,
                                            result |-> NoMatrix])
             /\ err' = e
             /\ pc' = "raised"
             /\ UNCHANGED <<output, i>>
        ELSE /\ invoked' = Append(invoked, [member |-> i, arg |-> arg, raised |-> "",
                                            result |-> Filter(member, arg)])
             /\ output' = Filter(member, arg)
             /\ i' = i + 1
             /\ UNCHANGED <<pc, err>>
  /\ UNCHANGED <<junk, self, filters, input, length, timeShift, padType, padded, respVars>>

\* return output
ChainFilterReturn ==
  /\ pc = "filterLoop"
  /\ i >= Len(filters)
  /\ pc' = "returned"
  /\ UNCHANGED <<junk, self, chainVars, padVars, err, respVars>>

\* F.at(k) *= H.at(k) for k < H.size()
AccumulateAssign(acc, H) ==
  [k \in 1..Len(acc) |-> IF k <= Len(H) THEN H[k] ELSE acc[k]]

Accumulate(acc, H) ==
  [k \in 1..Len(acc) |-> IF k <= Len(H) THEN CMul(acc[k], H[k]) ELSE acc[k]]

\* std::vector<std::complex<Double>> F((length+2)/2, 1.)
ChainResponseBegin ==
  /\ pc = "callResponse"
  /\ F' = [k \in 1..((length + 2) \div 2) |-> COne]
  /\ i' = 0
  /\ pc' = "responseLoop"
  /\ UNCHANGED <<junk, self, filters, invoked, padVars, err, aPad, bPad, touched>>

\* auto H = filters.at(i)->frequencyResponse(length), multiplied into F
ChainResponseStep ==
  /\ pc = "responseLoop"
  /\ i < Len(filters)
  /\ LET member == filters[i + 1]
         e == ResponseError(member, length)
     IN IF e # ""
        THEN /\ invoked' = Append(invoked, [member |-> i, arg |-> length, raised |-> e,
                                            result |-> <<>>])
             /\ err' = e
             /\ pc' = "raised"
             /\ UNCHANGED <<F, i>>
        ELSE /\ invoked' = Append(invoked, [member |-> i, arg |-> length, raised |-> "",
                                            result |-> FrequencyResponse(member, length)])
             /\ F' = Accumulate(F, FrequencyResponse(member, length))
             /\ i' = i + 1
             /\ UNCHANGED <<pc, err>>
  /\ UNCHANGED <<junk, self, filters, padVars, aPad, bPad, touched>>

\* return F
ChainResponseReturn ==
  /\ pc = "responseLoop"
  /\ i >= Len(filters)
  /\ pc' = "responded"
  /\ UNCHANGED <<junk, self, chainVars, padVars, err, respVars>>

NextChain ==
  \/ ChainFilterBegin \/ ChainFilterStep \/ ChainFilterReturn
  \/ ChainResponseBegin \/ ChainResponseStep \/ ChainResponseReturn

SpecChain == InitChain /\ [][NextChain]_vars

\* the product of the responses of the members fs at bin k, the last member's
\* factor taken first
RECURSIVE ResponseProduct(_, _, _)
ResponseProduct(fs, len, k) ==
  IF fs = <<>> THEN COne
  ELSE CMul(ResponseProduct(Tail(fs), len, k), FrequencyResponse(Head(fs), len)[k])

\* C6: DigitalFilter::frequencyResponse(length) returns exactly (length+2)/2
\* values, the k-th the product over all members of the member's
\* frequencyResponse(length) at index k, whatever the order of the factors;
\* every value is 1+0i when the chain is empty.
C6_ResponseIsProduct ==
  pc = "responded" =>
     /\ Len(F) = (length + 2) \div 2
     /\ Len(invoked) = Len(filters)
     /\ \A n \in 1..Len(filters) :
          /\ invoked[n].member = n - 1
          /\ invoked[n].arg = length
          /\ Len(invoked[n].result) = Len(F)
     /\ \A k \in 1..Len(F) : F[k] = ResponseProduct(filters, length, k)
     /\ (filters = <<>> => \A k \in 1..Len(F) : F[k] = [re |-> 1, im |-> 0, den |-> 1])

C6_Witness ==
  /\ pc = "responded"
  /\ Len(filters) = 3
  /\ length = 4
  /\ filters[1] # filters[2]
  /\ \E k \in 1..Len(F) : F[k].im # 0

\* the members fs applied to x one after the other
RECURSIVE ApplyAll(_, _)
ApplyAll(fs, x) ==
  IF fs = <<>> THEN x ELSE ApplyAll(Tail(fs), Filter(Head(fs), x))

\* C7: DigitalFilter::filter calls the members' filter in list order, each
\* once, member 0 with the input and every later member with the output of the
\* member before it, and returns the last member's output (the input itself
\* when the chain is empty); when a member raises an error the chain raises
\* it and calls no member after it.
C7_ChainInOrder ==
  pc \in {"filterLoop", "returned", "raised"} /\ input # NoMatrix =>
     /\ \A n \in 1..Len(invoked) :
          /\ invoked[n].member = n - 1
          /\ invoked[n].arg = (IF n = 1 THEN input ELSE invoked[n - 1].result)
          /\ invoked[n].raised # "" => (n = Len(invoked) /\ pc = "raised")
     /\ pc = "filterLoop" => (Len(invoked) = i /\ err = "")
     /\ pc = "returned" =>
          /\ Len(invoked) = Len(filters)
          /\ err = ""
          /\ output = ApplyAll(filters, input)
          /\ (filters = <<>> => output = input)
     /\ pc = "raised" =>
          /\ err # ""
          /\ invoked # <<>>
          /\ invoked[Len(invoked)].raised = err
          /\ ~ENABLED NextChain

C7_Witness ==
  /\ pc = "returned"
  /\ Len(filters) = 3
  /\ Len(invoked) = 3
  /\ filters[1] # filters[2]
  /\ output # input

-----------------------------------------------------------------------------
(* Specification SpecBlock: filter over more than one block of MaxBlockSize *)
(* rows, with a feedback order below and above the block size              *)

\* an of feedback order MaxBlockSize + 1: y(n) = x(n) - y(n - 65)
LongAn == [n \in 1..(MaxBlockSize + 2) |-> IF n = 1 \/ n = MaxBlockSize + 2 THEN 1 ELSE 0]

BlockFilters ==
  {f \in [bn : {<<1>>, <<1, 2>>}, an : {<<1, 1>>, LongAn}, bnStartIndex : {0},
          backward : BOOLEAN, inFrequencyDomain : {FALSE}, padType : {"NONE", "ZERO"}] :
     f.an = LongAn => (f.bn = <<1>> /\ f.padType = "NONE" /\ ~f.backward)}

\* the shortest input whose padded rows fill more than two blocks
BlockInputRows(f) ==
  IF f.padType = "NONE" THEN Max(Warmup(f), 2 * MaxBlockSize + 1)
  ELSE Max(Warmup(f), 2 * MaxBlockSize + 1 - 2 * Warmup(f))

\* the rows holding the impulse: the first rows of the input and the rows
\* about the end of the first block
ImpulseRows(f, r) ==
  {p \in 1..r : p <= 3 \/ (f.an = LongAn /\ p \in (MaxBlockSize - 30)..(MaxBlockSize + 2))}

InitBlock ==
  /\ pc = "start"
  /\ junk = 1
  /\ self \in BlockFilters
  /\ \E r \in BlockInputRows(self)..(BlockInputRows(self) + MaxBlockExtraRows) :
       input \in {Impulse(r, 1, p) : p \in ImpulseRows(self, r)}
  /\ FilterIdle
  /\ output = NoMatrix
  /\ err = ""
  /\ ChainIdle
  /\ RespIdle

SpecBlock == InitBlock /\ [][Next]_vars

\* row n of the sample-by-sample recursion
\* y(n) = Sum_i bn(i)*x(n-i) - Sum_{j>=1} an(j)*y(n-j), y the rows before n
RECURSIVE RecursionSum(_, _, _, _, _, _)
RecursionSum(coef, lo, hi, X, n, c) ==
  IF lo > hi THEN ZeroRow(c)
  ELSE IF lo = hi
       THEN IF n - lo >= 0 THEN RowScale(coef[lo + 1], Row(X, n - lo)) ELSE ZeroRow(c)
  ELSE LET mid == (lo + hi) \div 2
       IN RowAdd(RecursionSum(coef, lo, mid, X, n, c),
                 RecursionSum(coef, mid + 1, hi, X, n, c))

\* y holds in row n the value the recursion gives from the rows before it
RecursionHolds(f, x, y, n) ==
  Row(y, n) = RowAdd(RecursionSum(f.bn, 0, Len(f.bn) - 1, x, n, Columns(x)),
                     RowScale(-1, RecursionSum(f.an, 1, Len(f.an) - 1, y, n, Columns(x))))

\* C9: on the time-domain path, for every length(an) > 1 (feedback orders
\* above the block size and a final partial block included) the block-wise
\* evaluation gives, in every row n of the padded sequence, the value of the
\* sample-by-sample recursion y(n) = Sum_i bn(i)*x(n-i) - Sum_{j>=1} an(j)*y(n-j)
\* with zero initial state.
C9_BlocksMatchRecursion ==
  (pc = "filtered" /\ ~self.inFrequencyDomain /\ Len(self.an) > 1) =>
     LET p == Pad(input, Warmup(self), self.bnStartIndex, self.padType)
         p1 == IF self.backward THEN SwapRows(p, 0) ELSE p
         y == BlockRows(self, p1)
     IN /\ Rows(y) = Rows(p1)
        /\ \A n \in 0..(Rows(y) - 1) : RecursionHolds(self, p1, y, n)

-----------------------------------------------------------------------------
(* DigitalFilterARMA::filter with backward = true against the forward filter *)

\* the rows of x in reverse order
Reversed(x) == [n \in 1..Len(x) |-> x[Len(x) + 1 - n]]

\* the object f with backward = false
Forward(f) == [f EXCEPT !.backward = FALSE]

BackwardTimeDomain ==
  pc = "filtered" /\ ~self.inFrequencyDomain /\ self.backward

\* C11: on the time-domain path, for every coefficient set, every
\* bnStartIndex (bnStartIndex > 0 included) and every padType, filtering x
\* with backward = true gives the row-reversal of the result of filtering the
\* row-reversed x with backward = false and the same bn, an, bnStartIndex and
\* padType.
C11_BackwardIsReversedForward ==
  BackwardTimeDomain =>
     output = Reversed(TimeDomain(Forward(self), Reversed(input)))

-----------------------------------------------------------------------------
(* DigitalFilterARMA::filter: the shape of the result *)

SameShape(a, b) == Rows(a) = Rows(b) /\ Columns(a) = Columns(b)

\* C12: whenever DigitalFilterARMA::filter returns without error, its output
\* has the row count and the column count of its input, for every padType
\* (None with bnStartIndex > 0 included), both values of backward and both
\* evaluation paths; hence a chain of ARMA members keeps the row count: the
\* same member accepts the output as its input, and (evaluated for the
\* feed-forward members) applied to it returns that shape again.
C12_OutputHasInputShape ==
  pc = "filtered" =>
     /\ err = ""
     /\ SameShape(output, input)
     /\ FilterError(self, output) = ""
     /\ self.an = <<1>> => SameShape(ApplyAll(<<self, self>>, input), input)

C12_Witness ==
  /\ pc = "filtered"
  /\ self.padType = "NONE"
  /\ self.bnStartIndex = 1
  /\ self.inFrequencyDomain
  /\ self.backward
  /\ Rows(input) = 4
  /\ Columns(input) = 2
  /\ Rows(Pad(input, Warmup(self), self.bnStartIndex, self.padType)) = 5
  /\ SameShape(output, input)

====
